---- MODULE Spec2Model ----
(***************************************************************************)
(* SCP-079-WATCH, plugins/functions/etc.py: the text normalizer t2t, the   *)
(* language detection cascade get_lang, the entity text extractor          *)
(* get_entity_text and the report parser get_report_record.                *)
(*                                                                         *)
(* A Python str is a sequence of characters.  A character is a TLA+ string *)
(* naming it: an ASCII character stands for itself, the others are         *)
(*   "LF"    U+000A line feed          "ZWSP"  U+200B zero width space     *)
(*   "TRAD"  U+9AD4 (Traditional)      "SIMP"  U+4F53 (its Simplified form)*)
(*   "FW3"   U+FF13 fullwidth digit 3  "EMOJI" U+1F600 (outside the BMP)   *)
(*   "FWCOLON" U+FF1A fullwidth colon  "NBSP"  U+00A0 no-break space       *)
(*   "SPC", "SPE"  a key of glovar.spc_dict, of glovar.spe_dict            *)
(*   "HI", "LO"  the UTF-16 surrogate units D83D, DE00 of "EMOJI"          *)
(***************************************************************************)
EXTENDS Integers, Sequences, FiniteSets, TLC

VARIABLES
    glovar_normalize,   \* glovar.normalize: the global normalization switch
    glovar_lang,        \* glovar.lang: the locale bundle, a dict key -> text
    lang_protect,       \* glovar.lang_protect
    lang_bio,           \* glovar.lang_bio
    lang_name,          \* glovar.lang_name
    lang_sticker,       \* glovar.lang_sticker
    lang_text,          \* glovar.lang_text
    protect_raises,     \* the test "result in glovar.lang_protect" raises
    t2t_raises,         \* the step of t2t that raises when it runs, or "none"
    pc,                 \* "idle": no call made yet; "done": a call has returned
    call,               \* the call made: the function and its arguments
    ret                 \* what the call returned, with the values it went through

vars == <<glovar_normalize, glovar_lang, lang_protect, lang_bio, lang_name,
          lang_sticker, lang_text, protect_raises, t2t_raises, pc, call, ret>>

glovar == <<glovar_normalize, glovar_lang, lang_protect, lang_bio, lang_name,
            lang_sticker, lang_text>>

\* What makes a step inside a try block raise
faults == <<protect_raises, t2t_raises>>

\* Nothing raises but a detector
NoFault ==
    /\ protect_raises = FALSE
    /\ t2t_raises = "none"

----------------------------------------------------------------------------
(* Bounds of the model *)

MaxTextLen == 2
MaxShort == 2
MaxLangLen == 21
MaxEntityText == 3
MaxOffset == 3
MaxLines == 2

----------------------------------------------------------------------------
(* Sequences *)

Min(a, b) == IF a < b THEN a ELSE b

\* All sequences over S of length at most n
SeqUpTo(S, n) == UNION {[1..k -> S] : k \in 0..n}

\* text * n
RECURSIVE Repeat(_, _)
Repeat(text, n) == IF n <= 0 THEN <<>> ELSE text \o Repeat(text, n - 1)

\* "".join(f(t) for t in text)
RECURSIVE MapSeq(_, _)
MapSeq(f, text) ==
    IF text = <<>> THEN <<>>
    ELSE <<(IF Head(text) \in DOMAIN f THEN f[Head(text)] ELSE Head(text))>>
             \o MapSeq(f, Tail(text))

----------------------------------------------------------------------------
(* Character properties *)

\* str.isprintable, per character
isprintable(t) == t \notin {"LF", "CR", "TAB", "ZWSP", "NBSP"}

\* the characters str.strip removes
isspace(t) == t \in {" ", "LF", "CR", "TAB", "NBSP"}

\* text.strip() is empty
IsBlank(text) == \A i \in 1..Len(text) : isspace(text[i])

\* unicodedata.normalize("NFKC", .), per character
NFKC == [t \in {"FW3", "FWCOLON", "NBSP"} |->
            CASE t = "FW3" -> "3" [] t = "FWCOLON" -> ":" [] t = "NBSP" -> " "]

\* OpenCC t2s.json
t2s == [t \in {"TRAD"} |-> "SIMP"]

\* glovar.spc_dict and glovar.spe_dict: special punctuation, special symbols
spc_dict == [t \in {"SPC"} |-> ","]
spe_dict == [t \in {"SPE"} |-> "a"]

\* InPureClass with a space slipped into the character class
InPureClass_WithSpace(t) ==
    t \in {"3", "FW3", "a", "b", "u", "TRAD", "SIMP", ".", ",", ":", "?", "!", "@", " "}

\* The character class the pure filter keeps, the complement of the pattern's
\* [^\da-zA-Z<U+4E00>-<U+9FA5>.,:'"?!~;()...@...]. The pattern is a str pattern,
\* so its \d is every Unicode decimal digit, U+FF13 included.
InPureClass(t) ==
    \/ t \in {"3", "FW3"}                     \* \d
    \/ t \in {"a", "b", "u"}                  \* a-zA-Z
    \/ t \in {"TRAD", "SIMP"}                 \* U+4E00 - U+9FA5
    \/ t \in {".", ",", ":", "?", "!", "@"}   \* the listed punctuation

KeptByPrintable(t) == isprintable(t) \/ t \in {"LF", "CR", "TAB"}

----------------------------------------------------------------------------
(* t2t *)

\* t2t converting the script whenever the locale is Hans, whatever normal and
\* glovar.normalize are
t2t_LocaleOnly(text, normal, printable, pure) ==
    IF text = <<>> THEN <<>>
    ELSE
    LET r1 == IF glovar_normalize /\ normal
              THEN MapSeq(NFKC, MapSeq(spe_dict, MapSeq(spc_dict, text)))
              ELSE text
        r2 == IF "Hans" \in DOMAIN glovar_lang THEN MapSeq(t2s, r1) ELSE r1
        r3 == IF printable THEN SelectSeq(r2, KeptByPrintable) ELSE r2
        r4 == IF pure THEN SelectSeq(r3, InPureClass) ELSE r3
    IN r4

\* The steps of t2t, each an assignment to result inside the try block: the
\* two substitutions, the composition, the script conversion and the filters
T2TSteps == <<"spc", "spe", "nfkc", "convert", "printable", "pure">>

\* t2t(text, normal, printable, pure).  result starts as text and every step
\* assigns it: when the step t2t_raises runs, the except clause logs and
\* result is returned as the steps before it have left it
t2t(text, normal, printable, pure) ==
    IF text = <<>> THEN <<>>
    ELSE
    LET norm == glovar_normalize /\ normal
        conv == glovar_normalize /\ normal /\ "Hans" \in DOMAIN glovar_lang
        s1 == MapSeq(spc_dict, text)
        s2 == MapSeq(spe_dict, s1)
        r1 == IF norm THEN MapSeq(NFKC, s2) ELSE text
        r2 == IF conv THEN MapSeq(t2s, r1) ELSE r1
        r3 == IF printable THEN SelectSeq(r2, KeptByPrintable) ELSE r2
        r4 == IF pure THEN SelectSeq(r3, InPureClass) ELSE r3
    IN  CASE norm /\ t2t_raises = "spc" -> text
          [] norm /\ t2t_raises = "spe" -> s1
          [] norm /\ t2t_raises = "nfkc" -> s2
          [] conv /\ t2t_raises = "convert" -> r1
          [] printable /\ t2t_raises = "printable" -> r2
          [] pure /\ t2t_raises = "pure" -> r3
          [] OTHER -> r4

----------------------------------------------------------------------------
(* The locale bundle: glovar.lang *)

\* The keys get_report_record looks up, in the order of its elif chain, each
\* with the record field it selects
Fields == <<
    [key |-> "project",        type |-> "project"],
    [key |-> "project_origin", type |-> "origin"],
    [key |-> "status",         type |-> "status"],
    [key |-> "user_id",        type |-> "uid"],
    [key |-> "level",          type |-> "level"],
    [key |-> "rule",           type |-> "rule"],
    [key |-> "message_type",   type |-> "type"],
    [key |-> "message_game",   type |-> "game"],
    [key |-> "message_lang",   type |-> "lang"],
    [key |-> "message_len",    type |-> "length"],
    [key |-> "message_freq",   type |-> "freq"],
    [key |-> "user_score",     type |-> "score"],
    [key |-> "user_bio",       type |-> "bio"],
    [key |-> "user_name",      type |-> "name"],
    [key |-> "from_name",      type |-> "from"],
    [key |-> "contact",        type |-> "contact"],
    [key |-> "more",           type |-> "more"] >>

\* A key as text: what dict.get(text, text) falls back to
KeyText ==
    [project        |-> <<"p","r","o","j","e","c","t">>,
     project_origin |-> <<"p","r","o","j","e","c","t","_","o","r","i","g","i","n">>,
     status         |-> <<"s","t","a","t","u","s">>,
     user_id        |-> <<"u","s","e","r","_","i","d">>,
     level          |-> <<"l","e","v","e","l">>,
     rule           |-> <<"r","u","l","e">>,
     message_type   |-> <<"m","e","s","s","a","g","e","_","t","y","p","e">>,
     message_game   |-> <<"m","e","s","s","a","g","e","_","g","a","m","e">>,
     message_lang   |-> <<"m","e","s","s","a","g","e","_","l","a","n","g">>,
     message_len    |-> <<"m","e","s","s","a","g","e","_","l","e","n">>,
     message_freq   |-> <<"m","e","s","s","a","g","e","_","f","r","e","q">>,
     user_score     |-> <<"u","s","e","r","_","s","c","o","r","e">>,
     user_bio       |-> <<"u","s","e","r","_","b","i","o">>,
     user_name      |-> <<"u","s","e","r","_","n","a","m","e">>,
     from_name      |-> <<"f","r","o","m","_","n","a","m","e">>,
     contact        |-> <<"c","o","n","t","a","c","t">>,
     more           |-> <<"m","o","r","e">>,
     colon          |-> <<"c","o","l","o","n">>]

\* An English bundle
LangEn ==
    [project        |-> <<"P","j">>,
     project_origin |-> <<"O","r">>,
     status         |-> <<"S","t","a","t","u","s">>,
     user_id        |-> <<"I","D">>,
     level          |-> <<"L","e","v","e","l">>,
     rule           |-> <<"R","u">>,
     message_type   |-> <<"T","y">>,
     message_game   |-> <<"G","a">>,
     message_lang   |-> <<"L","a">>,
     message_len    |-> <<"L","e">>,
     message_freq   |-> <<"F","r">>,
     user_score     |-> <<"S","c">>,
     user_bio       |-> <<"B","i">>,
     user_name      |-> <<"N","a">>,
     from_name      |-> <<"F","n">>,
     contact        |-> <<"C","o">>,
     more           |-> <<"M","o">>,
     colon          |-> <<":"," ">>]

\* A bundle of a Hans locale: it holds the key "Hans", its colon is U+FF1A, it
\* gives user_name and from_name the same label, and it has no entry for "more"
LangHans ==
    [Hans           |-> <<"H">>,
     project        |-> <<"P","j">>,
     project_origin |-> <<"O","r">>,
     status         |-> <<"S","t">>,
     user_id        |-> <<"I","D">>,
     level          |-> <<"L","v">>,
     rule           |-> <<"R","u">>,
     message_type   |-> <<"T","y">>,
     message_game   |-> <<"G","a">>,
     message_lang   |-> <<"L","a">>,
     message_len    |-> <<"L","e">>,
     message_freq   |-> <<"F","r">>,
     user_score     |-> <<"S","c">>,
     user_bio       |-> <<"B","i">>,
     user_name      |-> <<"N","a">>,
     from_name      |-> <<"N","a">>,
     contact        |-> <<"C","o">>,
     colon          |-> <<"FWCOLON">>]

\* lang(text): glovar.lang.get(text, text)
lang(text) == IF text \in DOMAIN glovar_lang THEN glovar_lang[text] ELSE KeyText[text]

----------------------------------------------------------------------------
(* The calls *)

NoCall == [fn |-> "none"]
NoRet == [result |-> <<>>]

\* A call has returned and the caller goes on
Return ==
    /\ pc = "done"
    /\ pc' = "idle"
    /\ call' = NoCall
    /\ ret' = NoRet
    /\ UNCHANGED <<glovar, faults>>

\* The characters of the texts given to t2t
T2TChars == {"a", " ", "LF", "NBSP", "ZWSP", "#", "TRAD", "SIMP", "FW3", "SPC", "SPE"}

InitT2T ==
    /\ glovar_normalize \in BOOLEAN
    /\ glovar_lang \in {LangEn, LangHans}
    /\ lang_protect = {}
    /\ lang_bio = {}
    /\ lang_name = {}
    /\ lang_sticker = {}
    /\ lang_text = {}
    /\ NoFault
    /\ pc = "idle"
    /\ call = NoCall
    /\ ret = NoRet

\* A call of t2t(text, normal, printable, pure)
T2T ==
    /\ pc = "idle"
    /\ \E text \in SeqUpTo(T2TChars, MaxTextLen), normal, printable, pure \in BOOLEAN :
          /\ call' = [fn |-> "t2t", text |-> text, normal |-> normal,
                      printable |-> printable, pure |-> pure]
          /\ ret' = [result |-> t2t(text, normal, printable, pure)]
    /\ pc' = "done"
    /\ UNCHANGED <<glovar, faults>>

NextT2T == T2T \/ Return

SpecT2T == InitT2T /\ [][NextT2T]_vars

\* t2t where one of its steps raises when it runs
InitT2TFault ==
    /\ glovar_normalize = TRUE
    /\ glovar_lang \in {LangEn, LangHans}
    /\ lang_protect = {}
    /\ lang_bio = {}
    /\ lang_name = {}
    /\ lang_sticker = {}
    /\ lang_text = {}
    /\ protect_raises = FALSE
    /\ t2t_raises \in {T2TSteps[i] : i \in DOMAIN T2TSteps}
    /\ pc = "idle"
    /\ call = NoCall
    /\ ret = NoRet

SpecT2TFault == InitT2TFault /\ [][NextT2T]_vars

----------------------------------------------------------------------------
(* get_lang *)

\* What a detector (langdetect's detect, TextBlob's detect_language,
\* guess_language) does with a text: it returns a language code, it returns
\* nothing ("" stands for "" and None), or it raises ("RAISE").  guess_language
\* returns "UNKNOWN" when it cannot tell.
Codes == {"en", "fr"}
DetectOutcomes == Codes \cup {"", "RAISE"}
GuessOutcomes == Codes \cup {"UNKNOWN", "", "RAISE"}

\* chinese_symbols + english_symbols + special_symbols
symbols == {"#", ",", ".", ":", "?", "!", "@", "FWCOLON"}

\* glovar.emoji_set
emoji_set == {"EMOJI"}

NotSymbol(t) == t \notin symbols /\ t \notin emoji_set

\* get_lang_langdetect, the detector having done d.  result holds the
\* detector's value when the membership test is made: a test that raises
\* leaves it there, and it is returned after the except clause
get_lang_langdetect(d) ==
    IF d = "RAISE" THEN ""
    ELSE IF d = "" THEN ""
    ELSE IF protect_raises THEN d
    ELSE IF d \in lang_protect THEN ""
    ELSE d

\* get_lang_textblob, the detector having done b
get_lang_textblob(b) ==
    IF b = "RAISE" THEN ""
    ELSE IF b = "" THEN ""
    ELSE IF protect_raises THEN b
    ELSE IF b \in lang_protect THEN ""
    ELSE b

\* get_lang_guess, the detector having done g
get_lang_guess(g) ==
    IF g = "RAISE" THEN ""
    ELSE IF g = "" THEN ""
    ELSE IF g = "UNKNOWN" THEN g
    ELSE IF protect_raises THEN g
    ELSE IF g \in lang_protect THEN ""
    ELSE g

lang_default == lang_bio \cup lang_name \cup lang_sticker \cup lang_text

\* get_lang_text tiling the texts of 20 characters too (<= for <)
get_lang_text_TileAtTwenty(text) ==
    LET stripped == SelectSeq(text, NotSymbol)
        shown == SelectSeq(stripped, isprintable)
    IN  IF Len(stripped) <= 20
        THEN IF IsBlank(shown) THEN <<>>
             ELSE Repeat(shown, (20 \div Len(shown)) + 1)
        ELSE IF IsBlank(stripped) THEN <<>> ELSE stripped

\* The text get_lang hands to the detectors: <<>> when it returns before
\* it calls them
get_lang_text(text) ==
    LET stripped == SelectSeq(text, NotSymbol)
        shown == SelectSeq(stripped, isprintable)
    IN  IF Len(stripped) < 20
        THEN IF IsBlank(shown) THEN <<>>
             ELSE Repeat(shown, (20 \div Len(shown)) + 1)
        ELSE IF IsBlank(stripped) THEN <<>> ELSE stripped

\* get_lang without its "elif result: return ''": a primary result that the
\* recheck does not settle falls through to guess
get_lang_FallsThrough(text, d, b, g) ==
    LET detected == get_lang_text(text)
        primary == get_lang_langdetect(d)
        recheck == IF primary # "" THEN get_lang_textblob(b) ELSE ""
    IN  IF detected = <<>>
        THEN [result |-> "", detected |-> detected, calls |-> <<>>,
              primary |-> "", recheck |-> ""]
        ELSE IF primary # "" /\ recheck # ""
                /\ (primary = recheck \/ recheck \notin lang_default)
        THEN [result |-> recheck, detected |-> detected,
              calls |-> <<[fn |-> "langdetect", did |-> d], [fn |-> "textblob", did |-> b]>>,
              primary |-> primary, recheck |-> recheck]
        ELSE [result |-> get_lang_guess(g), detected |-> detected,
              calls |-> <<[fn |-> "langdetect", did |-> d]>>
                           \o (IF primary # "" THEN <<[fn |-> "textblob", did |-> b]>> ELSE <<>>)
                           \o <<[fn |-> "guess", did |-> g]>>,
              primary |-> primary, recheck |-> recheck]

\* get_lang(text), the detectors doing d, b and g when they are called.
\* calls: the detectors called, in order; primary and recheck: the values of
\* result after get_lang_langdetect and of recheck
get_lang(text, d, b, g) ==
    LET detected == get_lang_text(text)
        primary == get_lang_langdetect(d)
        recheck == IF primary # "" THEN get_lang_textblob(b) ELSE ""
    IN  IF detected = <<>>
        THEN [result |-> "", detected |-> detected, calls |-> <<>>,
              primary |-> "", recheck |-> ""]
        ELSE IF primary # "" /\ recheck # ""
                /\ (primary = recheck \/ recheck \notin lang_default)
        THEN [result |-> recheck, detected |-> detected,
              calls |-> <<[fn |-> "langdetect", did |-> d], [fn |-> "textblob", did |-> b]>>,
              primary |-> primary, recheck |-> recheck]
        ELSE IF primary # ""
        THEN [result |-> "", detected |-> detected,
              calls |-> <<[fn |-> "langdetect", did |-> d], [fn |-> "textblob", did |-> b]>>,
              primary |-> primary, recheck |-> recheck]
        ELSE [result |-> get_lang_guess(g), detected |-> detected,
              calls |-> <<[fn |-> "langdetect", did |-> d], [fn |-> "guess", did |-> g]>>,
              primary |-> primary, recheck |-> recheck]

\* The texts given to get_lang: the short ones, and runs of a letter or of a
\* space up to MaxLangLen, alone, after a symbol and before a character
\* that is not printable
LangChars == {"a", " ", "#", "EMOJI", "ZWSP"}
LangTexts ==
    SeqUpTo(LangChars, MaxShort)
    \cup {Repeat(<<t>>, n) : t \in {"a", " "}, n \in 0..MaxLangLen}
    \cup {<<"#">> \o Repeat(<<"a">>, n) : n \in 0..MaxLangLen}
    \cup {Repeat(<<"a">>, n) \o <<"ZWSP">> : n \in 0..MaxLangLen}

InitLang ==
    /\ glovar_normalize = TRUE
    /\ glovar_lang = LangEn
    /\ lang_protect \in SUBSET (Codes \cup {"UNKNOWN"})
    /\ lang_bio \in {{}, {"en"}}
    /\ lang_name \in {{}, {"fr"}}
    /\ lang_sticker = {}
    /\ lang_text = {}
    /\ NoFault
    /\ pc = "idle"
    /\ call = NoCall
    /\ ret = NoRet

\* A call of get_lang(text)
GetLang ==
    /\ pc = "idle"
    /\ \E text \in LangTexts, d, b \in DetectOutcomes, g \in GuessOutcomes :
          /\ call' = [fn |-> "get_lang", text |-> text]
          /\ ret' = get_lang(text, d, b, g)
    /\ pc' = "done"
    /\ UNCHANGED <<glovar, faults>>

NextLang == GetLang \/ Return

SpecLang == InitLang /\ [][NextLang]_vars

\* get_lang where the membership test of the three wrappers may raise
InitLangFault ==
    /\ glovar_normalize = TRUE
    /\ glovar_lang = LangEn
    /\ lang_protect \in SUBSET (Codes \cup {"UNKNOWN"})
    /\ lang_bio \in {{}, {"en"}}
    /\ lang_name \in {{}, {"fr"}}
    /\ lang_sticker = {}
    /\ lang_text = {}
    /\ protect_raises \in BOOLEAN
    /\ t2t_raises = "none"
    /\ pc = "idle"
    /\ call = NoCall
    /\ ret = NoRet

SpecLangFault == InitLangFault /\ [][NextLang]_vars

----------------------------------------------------------------------------
(* get_text and get_entity_text *)

\* A message: text is message.text or message.caption (<<>>: neither),
\* entities is message.entities or message.caption_entities, buttons the
\* buttons of message.reply_markup.inline_keyboard, row after row.  An entity
\* is [offset, length, url] and a button [text, url]: <<>> is a url or a text
\* that is None or "".

\* "\n{en.url}" for each entity that has a url
RECURSIVE EntityUrls(_)
EntityUrls(entities) ==
    IF entities = <<>> THEN <<>>
    ELSE (IF Head(entities).url # <<>> THEN <<"LF">> \o Head(entities).url ELSE <<>>)
             \o EntityUrls(Tail(entities))

\* "\n{button.text}" and "\n{button.url}" for each button
RECURSIVE ButtonTexts(_)
ButtonTexts(buttons) ==
    IF buttons = <<>> THEN <<>>
    ELSE (IF Head(buttons).text # <<>> THEN <<"LF">> \o Head(buttons).text ELSE <<>>)
             \o (IF Head(buttons).url # <<>> THEN <<"LF">> \o Head(buttons).url ELSE <<>>)
             \o ButtonTexts(Tail(buttons))

get_text(message, normal, printable) ==
    LET t1 == IF message.text # <<>>
              THEN message.text \o EntityUrls(message.entities)
              ELSE <<>>
        t2 == t1 \o ButtonTexts(message.buttons)
    IN  IF t2 # <<>> THEN t2t(t2, normal, printable, FALSE) ELSE <<>>

\* text.encode("utf-16-le"), as 16-bit units
RECURSIVE encode(_)
encode(text) ==
    IF text = <<>> THEN <<>>
    ELSE (IF Head(text) = "EMOJI" THEN <<"HI", "LO">> ELSE <<Head(text)>>)
             \o encode(Tail(text))

\* bytes.decode("utf-16-le") does not raise
RECURSIVE DecodeOk(_)
DecodeOk(units) ==
    IF units = <<>> THEN TRUE
    ELSE IF Head(units) = "HI"
         THEN Len(units) >= 2 /\ units[2] = "LO" /\ DecodeOk(Tail(Tail(units)))
    ELSE IF Head(units) = "LO" THEN FALSE
    ELSE DecodeOk(Tail(units))

\* bytes.decode("utf-16-le"), where it does not raise
RECURSIVE decode(_)
decode(units) ==
    IF units = <<>> THEN <<>>
    ELSE IF Head(units) = "HI" THEN <<"EMOJI">> \o decode(Tail(Tail(units)))
    ELSE <<Head(units)>> \o decode(Tail(units))

\* text[offset * 2:(offset + length) * 2] of the encoded text, in 16-bit units
ByteSlice(units, offset, length) ==
    SubSeq(units, offset + 1, Min(offset + length, Len(units)))

\* bytes.decode("utf-16-le", "ignore"): an unpaired surrogate is dropped
RECURSIVE decode_ignore(_)
decode_ignore(units) ==
    IF units = <<>> THEN <<>>
    ELSE IF Head(units) = "HI" /\ Len(units) >= 2 /\ units[2] = "LO"
         THEN <<"EMOJI">> \o decode_ignore(Tail(Tail(units)))
    ELSE IF Head(units) \in {"HI", "LO"} THEN decode_ignore(Tail(units))
    ELSE <<Head(units)>> \o decode_ignore(Tail(units))

\* get_entity_text decoding with errors ignored
get_entity_text_Ignore(message, entity) ==
    LET text == get_text(message, FALSE, TRUE)
    IN  IF text = <<>> \/ entity = <<>>
        THEN [result |-> <<>>, text |-> text]
        ELSE [result |-> decode_ignore(
                             ByteSlice(encode(text), entity[1].offset, entity[1].length)),
              text |-> text]

\* get_entity_text(message, entity); entity is <<>> (None) or <<the entity>>.
\* text: what get_text returned
get_entity_text(message, entity) ==
    LET text == get_text(message, FALSE, TRUE)
    IN  IF text = <<>> \/ entity = <<>>
        THEN [result |-> <<>>, text |-> text]
        ELSE LET sl == ByteSlice(encode(text), entity[1].offset, entity[1].length)
             IN  [result |-> IF DecodeOk(sl) THEN decode(sl) ELSE <<>>,
                  text |-> text]

\* The messages and entities given to get_entity_text
EntityChars == {"a", "ZWSP", "EMOJI"}
Urls == {<<>>, <<"u">>}
Buttons == {<<>>, <<[text |-> <<"b">>, url |-> <<"u">>]>>}
Entities == [offset : 0..MaxOffset, length : 0..MaxOffset, url : Urls]

InitEntity ==
    /\ glovar_normalize = TRUE
    /\ glovar_lang = LangEn
    /\ lang_protect = {}
    /\ lang_bio = {}
    /\ lang_name = {}
    /\ lang_sticker = {}
    /\ lang_text = {}
    /\ NoFault
    /\ pc = "idle"
    /\ call = NoCall
    /\ ret = NoRet

\* A call of get_entity_text(message, entity), the entity one of the message's
\* or None
GetEntityText ==
    /\ pc = "idle"
    /\ \E text \in SeqUpTo(EntityChars, MaxEntityText), buttons \in Buttons,
          entity \in {<<>>} \cup {<<e>> : e \in Entities} :
          /\ call' = [fn |-> "get_entity_text",
                      message |-> [text |-> text, entities |-> entity, buttons |-> buttons],
                      entity |-> entity]
          /\ ret' = get_entity_text(
                       [text |-> text, entities |-> entity, buttons |-> buttons], entity)
    /\ pc' = "done"
    /\ UNCHANGED <<glovar, faults>>

NextEntity == GetEntityText \/ Return

SpecEntity == InitEntity /\ [][NextEntity]_vars

----------------------------------------------------------------------------
(* get_report_record *)

\* r starts with prefix: re.search of "^" + prefix, the prefix holding no
\* character that is special in a pattern
StartsWith(r, prefix) ==
    /\ Len(prefix) <= Len(r)
    /\ SubSeq(r, 1, Len(prefix)) = prefix

\* text.split(sep), sep not empty
RECURSIVE Split(_, _)
Split(text, sep) ==
    IF \E i \in 1..Len(text) : StartsWith(SubSeq(text, i, Len(text)), sep)
    THEN LET i == CHOOSE i \in 1..Len(text) :
                      /\ StartsWith(SubSeq(text, i, Len(text)), sep)
                      /\ \A j \in 1..(i - 1) : ~StartsWith(SubSeq(text, j, Len(text)), sep)
         IN  <<SubSeq(text, 1, i - 1)>>
                 \o Split(SubSeq(text, i + Len(sep), Len(text)), sep)
    ELSE <<text>>

\* The record get_report_record starts from
EmptyRecord ==
    [project |-> <<>>, origin |-> <<>>, status |-> <<>>, uid |-> <<>>,
     level |-> <<>>, rule |-> <<>>, type |-> <<>>, game |-> <<>>,
     lang |-> <<>>, length |-> <<>>, freq |-> <<>>, score |-> <<>>,
     bio |-> <<>>, name |-> <<>>, from |-> <<>>, contact |-> <<>>,
     more |-> <<>>, unknown |-> <<>>]

\* record_type taking the last label that matches, not the first
record_type_LastMatch(r) ==
    IF \E k \in 1..Len(Fields) : StartsWith(r, lang(Fields[k].key) \o lang("colon"))
    THEN LET k == CHOOSE k \in 1..Len(Fields) :
                      /\ StartsWith(r, lang(Fields[k].key) \o lang("colon"))
                      /\ \A j \in (k + 1)..Len(Fields) :
                            ~StartsWith(r, lang(Fields[j].key) \o lang("colon"))
         IN  Fields[k].type
    ELSE "unknown"

\* The if / elif chain: the record_type of line r
record_type(r) ==
    IF \E k \in 1..Len(Fields) : StartsWith(r, lang(Fields[k].key) \o lang("colon"))
    THEN LET k == CHOOSE k \in 1..Len(Fields) :
                      /\ StartsWith(r, lang(Fields[k].key) \o lang("colon"))
                      /\ \A j \in 1..(k - 1) :
                            ~StartsWith(r, lang(Fields[j].key) \o lang("colon"))
         IN  Fields[k].type
    ELSE "unknown"

\* StoreLine keeping a line of no label whole
StoreLine_Verbatim(record, r) ==
    LET parts == Split(r, lang("colon"))
    IN  [record EXCEPT ![record_type(r)] =
            IF record_type(r) = "unknown" THEN r ELSE parts[Len(parts)]]

\* StoreLine appending to what the field holds
StoreLine_Accumulate(record, r) ==
    LET parts == Split(r, lang("colon"))
    IN  [record EXCEPT ![record_type(r)] = @ \o parts[Len(parts)]]

\* One turn of the loop:  record[record_type] = r.split(lang("colon"))[-1]
StoreLine(record, r) ==
    LET parts == Split(r, lang("colon"))
    IN  [record EXCEPT ![record_type(r)] = parts[Len(parts)]]

RECURSIVE StoreLines(_, _)
StoreLines(record, record_list) ==
    IF record_list = <<>> THEN record
    ELSE StoreLines(StoreLine(record, Head(record_list)), Tail(record_list))

\* get_report_record(message), text being message.text (<<>>: None or "")
get_report_record(text) ==
    IF text = <<>> THEN EmptyRecord
    ELSE StoreLines(EmptyRecord, Split(text, <<"LF">>))

\* The lines of the reports given to get_report_record: each label with a
\* value, some values holding the colon, and lines that start with no label
\* and its colon
ReportLines ==
    {lang(Fields[k].key) \o lang("colon") \o <<"3">> : k \in 1..Len(Fields)}
    \cup {lang("status") \o lang("colon") \o <<"B","a","n","n","e","d">>,
          lang("level") \o lang("colon") \o <<"3">> \o lang("colon") \o <<"4">>,
          <<"?","?","?">>,
          <<>>,
          <<"x">> \o lang("colon") \o <<"3">>,
          lang("level") \o <<"3">>,
          <<" ">> \o lang("level") \o lang("colon") \o <<"3">>}

\* "\n".join(lines)
RECURSIVE JoinLines(_)
JoinLines(lines) ==
    IF lines = <<>> THEN <<>>
    ELSE IF Len(lines) = 1 THEN lines[1]
    ELSE lines[1] \o <<"LF">> \o JoinLines(Tail(lines))

InitRecord ==
    /\ glovar_normalize = TRUE
    /\ glovar_lang \in {LangEn, LangHans}
    /\ lang_protect = {}
    /\ lang_bio = {}
    /\ lang_name = {}
    /\ lang_sticker = {}
    /\ lang_text = {}
    /\ NoFault
    /\ pc = "idle"
    /\ call = NoCall
    /\ ret = NoRet

\* A call of get_report_record(message), message.text being the lines joined
GetReportRecord ==
    /\ pc = "idle"
    /\ \E lines \in SeqUpTo(ReportLines, MaxLines) :
          /\ call' = [fn |-> "get_report_record", text |-> JoinLines(lines),
                      lines |-> lines]
          /\ ret' = [result |-> get_report_record(JoinLines(lines))]
    /\ pc' = "done"
    /\ UNCHANGED <<glovar, faults>>

NextRecord == GetReportRecord \/ Return

SpecRecord == InitRecord /\ [][NextRecord]_vars

----------------------------------------------------------------------------
(* Properties of get_lang, under SpecLang *)

LangDone == pc = "done" /\ call.fn = "get_lang"

\* C1: for every non-empty glovar.lang_protect, every text and every outcome
\* of the three detectors, get_lang returns "" or a code that is not in
\* glovar.lang_protect.
C1_NeverProtected ==
    (LangDone /\ lang_protect # {})
        => (ret.result = "" \/ ret.result \notin lang_protect)

\* C2: when get_lang_langdetect yields a non-empty (and so not protected)
\* result p, get_lang returns the recheck c if c is not empty and (c = p or c
\* is not in lang_default), it returns "" otherwise, and guess is not called.
C2_CrossCheckDecides ==
    (LangDone /\ ret.primary # "")
        => /\ ret.primary \notin lang_protect
           /\ ret.result =
                 IF /\ ret.recheck # ""
                    /\ (ret.recheck = ret.primary
                           \/ ret.recheck \notin (lang_bio \cup lang_name
                                                    \cup lang_sticker \cup lang_text))
                 THEN ret.recheck
                 ELSE ""
           /\ \A i \in 1..Len(ret.calls) : ret.calls[i].fn # "guess"

\* p = "en", c = "fr", defaults = {"en", "fr"}: get_lang has returned ""
C2_Witness ==
    /\ LangDone
    /\ ret.primary = "en"
    /\ ret.recheck = "fr"
    /\ lang_bio \cup lang_name \cup lang_sticker \cup lang_text = {"en", "fr"}
    /\ ret.result = ""

\* What get_lang leaves of its text: s after the symbols and emoji are
\* stripped, t after the characters that are not printable are dropped from s
Stripped == SelectSeq(call.text, LAMBDA c : c \notin symbols /\ c \notin emoji_set)
Shown == SelectSeq(Stripped, isprintable)

Ceil(a, b) == (a + b - 1) \div b

\* ret.detected is t written n times over
Tiled(t, n) ==
    /\ Len(ret.detected) = n * Len(t)
    /\ \A i \in 1..Len(ret.detected) : ret.detected[i] = t[((i - 1) % Len(t)) + 1]

\* C11, as claimed: when len(s) >= 20 the detectors are handed s itself; when
\* len(s) < 20 and t is not blank they are handed t written exactly
\* ceil(20 / len(t)) times over, at least 20 characters.
C11_TilesCeil ==
    LangDone =>
        /\ (Len(Stripped) >= 20 /\ ~IsBlank(Stripped)) => ret.detected = Stripped
        /\ (Len(Stripped) < 20 /\ ~IsBlank(Shown))
              => /\ Tiled(Shown, Ceil(20, Len(Shown)))
                 /\ Len(ret.detected) >= 20

\* C11, amended: when len(s) >= 20 the detectors are handed s itself; when
\* len(s) < 20 and t is not blank they are handed t written 20 // len(t) + 1
\* times over, which is ceil(20 / len(t)) when len(t) does not divide 20 and
\* one more when it does, and always more than 20 characters.
C11_TilesFloorPlusOne ==
    LangDone =>
        /\ (Len(Stripped) >= 20 /\ ~IsBlank(Stripped)) => ret.detected = Stripped
        /\ (Len(Stripped) < 20 /\ ~IsBlank(Shown))
              => /\ Tiled(Shown, (20 \div Len(Shown)) + 1)
                 /\ Len(ret.detected) > 20
                 /\ IF 20 % Len(Shown) = 0
                    THEN Len(ret.detected) = 20 + Len(Shown)
                    ELSE Tiled(Shown, Ceil(20, Len(Shown)))

\* a text of 4 letters has been handed to the detectors 6 times over
C11_Witness ==
    /\ LangDone
    /\ call.text = <<"a", "a", "a", "a">>
    /\ Len(ret.detected) = 24
    /\ ret.calls # <<>>

\* guess_language has been called and has answered its sentinel
GuessedUnknown ==
    /\ ret.calls # <<>>
    /\ ret.calls[Len(ret.calls)] = [fn |-> "guess", did |-> "UNKNOWN"]

\* C12: when get_lang_langdetect yields no usable result and guess_language
\* answers "UNKNOWN", get_lang returns "" and never "UNKNOWN".
C12_SentinelIsNoMatch ==
    (LangDone /\ ret.primary = "" /\ GuessedUnknown) => ret.result = ""

----------------------------------------------------------------------------
(* Properties of get_lang, under SpecLangFault *)

\* The detector fn has been called and has done did
Called(fn, did) ==
    \E i \in 1..Len(ret.calls) : ret.calls[i] = [fn |-> fn, did |-> did]

\* A detector that raises: the primary's result is "" and get_lang returns
\* what the guesser gives; the recheck's result is "" and get_lang returns
\* ""; when the guesser raises get_lang returns ""
RaiseIsolated ==
    LangDone =>
        /\ Called("langdetect", "RAISE")
              => /\ ret.primary = ""
                 /\ \E g \in GuessOutcomes : Called("guess", g)
                 /\ ret.result = "" \/ Called("guess", ret.result)
        /\ Called("textblob", "RAISE") => (ret.recheck = "" /\ ret.result = "")
        /\ Called("guess", "RAISE") => ret.result = ""

\* get_lang returns no code of glovar.lang_protect (the sentinel is left to
\* C1 and C12)
NothingUnfiltered ==
    (LangDone /\ ret.result \notin {"", "UNKNOWN"}) => ret.result \notin lang_protect

\* C13: each detector call of get_lang is isolated: a detector that raises
\* counts as "" and the cascade goes on as it does for "", and no failure
\* inside a wrapper, a membership test that raises after the detector has
\* given its value included, lets get_lang return an unfiltered value.
C13_FaultIsolated == RaiseIsolated /\ NothingUnfiltered

----------------------------------------------------------------------------
(* Properties of t2t, under SpecT2T *)

T2TDone == pc = "done" /\ call.fn = "t2t"

Count(t, text) == Cardinality({i \in 1..Len(text) : text[i] = t})

\* The whitespace characters
Whitespace == {" ", "LF", "CR", "TAB", "NBSP"}

OnlyWhitespace(text) == \A i \in 1..Len(text) : text[i] \in Whitespace

ClaimedWhitelist ==
    {"3"} \cup {"a", "b", "u"} \cup {"TRAD", "SIMP"} \cup {".", ",", ":", "?", "!", "@"}

\* C9: with pure alone set, t2t(t2t(x)) = t2t(x), and every character t2t
\* returns is in the whitelist.
C9_PureIdempotentWhitelist ==
    (T2TDone /\ call.pure /\ ~call.normal /\ ~call.printable)
        => /\ t2t(ret.result, FALSE, FALSE, TRUE) = ret.result
           /\ \A i \in 1..Len(ret.result) : ret.result[i] \in ClaimedWhitelist

Hans == "Hans" \in DOMAIN glovar_lang

\* The text went through the script conversion: no Traditional character is
\* left and each has become its Simplified form
Converted(text, result) ==
    /\ Count("TRAD", result) = 0
    /\ Count("SIMP", result) = Count("TRAD", text) + Count("SIMP", text)

\* The script conversion left the text as it was
NotConverted(text, result) ==
    /\ Count("TRAD", result) = Count("TRAD", text)
    /\ Count("SIMP", result) = Count("SIMP", text)

\* C10 as stated: the locale alone decides the script conversion: it is done
\* when "Hans" is in glovar.lang, whatever normal, printable, pure and
\* glovar.normalize are, and it is not done when "Hans" is not.
C10_LocaleOnly ==
    T2TDone
        => IF Hans THEN Converted(call.text, ret.result)
                   ELSE NotConverted(call.text, ret.result)

\* C10, amended: the script conversion is done when glovar.normalize and
\* normal are set and "Hans" is in glovar.lang, whatever printable and pure
\* are; in every other case the text is not converted.
C10_ConvertedIffNormalAndHans ==
    T2TDone
        => IF glovar_normalize /\ call.normal /\ Hans
           THEN Converted(call.text, ret.result)
           ELSE NotConverted(call.text, ret.result)

\* A Traditional character has become its Simplified form
C10_Witness ==
    /\ T2TDone
    /\ Hans /\ glovar_normalize /\ call.normal
    /\ call.text = <<"TRAD", "a">>
    /\ ret.result = <<"SIMP", "a">>

----------------------------------------------------------------------------
(* Properties of t2t, under SpecT2TFault *)

\* The step of t2t that raises has run in the call made
StepRaised ==
    /\ T2TDone
    /\ call.text # <<>>
    /\ CASE t2t_raises \in {"spc", "spe", "nfkc"} -> glovar_normalize /\ call.normal
         [] t2t_raises = "convert" ->
               glovar_normalize /\ call.normal /\ "Hans" \in DOMAIN glovar_lang
         [] t2t_raises = "printable" -> call.printable
         [] t2t_raises = "pure" -> call.pure
         [] OTHER -> FALSE

\* C14: a failure in any step of t2t (substitution, composition, script
\* conversion, printable filter, pure filter) makes t2t return "", not the
\* text it was given nor the text as the steps before the failure left it.
C14_FailureGivesEmpty == StepRaised => ret.result = <<>>

----------------------------------------------------------------------------
(* Properties of get_report_record, under SpecRecord *)

RecordDone == pc = "done" /\ call.fn = "get_report_record"

\* The keys of the record
RecordKeys ==
    {"project", "origin", "status", "uid", "level", "rule", "type", "game",
     "lang", "length", "freq", "score", "bio", "name", "from", "contact",
     "more", "unknown"}

\* The label of the k-th field, followed by the colon, starts line r
Matches(k, r) == StartsWith(r, lang(Fields[k].key) \o lang("colon"))

\* The k-th field is the first, in the order of Fields, whose label matches r
Selects(k, r) == Matches(k, r) /\ \A j \in 1..(k - 1) : ~Matches(j, r)

Unmatched(r) == \A k \in 1..Len(Fields) : ~Matches(k, r)

\* The lines of the report that no label matches
UnmatchedLines == {i \in 1..Len(call.lines) : Unmatched(call.lines[i])}

Last(S) == CHOOSE i \in S : \A j \in S : j <= i

\* sep occurs in r at position i
OccursAt(sep, r, i) ==
    /\ i + Len(sep) - 1 <= Len(r)
    /\ \A j \in 1..Len(sep) : r[i + j - 1] = sep[j]

\* v is what follows the last occurrence of the colon in r: r itself, when
\* the colon does not occur in r
AfterLastColon(r, v) ==
    LET at == {i \in 1..Len(r) : OccursAt(lang("colon"), r, i)}
    IN  IF at = {} THEN v = r
        ELSE /\ Len(v) = Len(r) - (Last(at) + Len(lang("colon")) - 1)
             /\ \A j \in 1..Len(v) : v[j] = r[Last(at) + Len(lang("colon")) - 1 + j]

\* u holds the line r
Holds(u, r) == \E i \in 1..(Len(u) + 1) : OccursAt(r, u, i)

\* C4 as stated: when L is the only line of the report that no label
\* matches, the record's "unknown" is L, whole.
C4_UnknownVerbatim ==
    (RecordDone /\ Cardinality(UnmatchedLines) = 1)
        => ret.result["unknown"] = call.lines[Last(UnmatchedLines)]

\* C4, amended: when L is the only line of the report that no label matches,
\* the record's "unknown" is what follows the last occurrence of the colon in
\* L: the whole of L only when L does not hold the colon.
C4_UnknownAfterLastColon ==
    (RecordDone /\ Cardinality(UnmatchedLines) = 1)
        => AfterLastColon(call.lines[Last(UnmatchedLines)], ret.result["unknown"])

\* The only unmatched line holds the colon and "unknown" is what follows it
C4_Witness ==
    /\ RecordDone
    /\ Cardinality(UnmatchedLines) = 1
    /\ call.lines[Last(UnmatchedLines)] = <<"x">> \o lang("colon") \o <<"3">>
    /\ ret.result["unknown"] = <<"3">>

\* C5 as stated: when several lines of the report match no label, the
\* record's "unknown" holds the content of every one of them: of each, what
\* follows its last colon.
C5_UnknownAccumulates ==
    (RecordDone /\ Cardinality(UnmatchedLines) >= 2)
        => \A i \in UnmatchedLines :
              \E n \in 0..Len(call.lines[i]) :
                 LET r == call.lines[i]
                     v == SubSeq(r, Len(r) - n + 1, Len(r))
                 IN  AfterLastColon(r, v) /\ Holds(ret.result["unknown"], v)

\* C5, amended: when several lines of the report match no label, the record's
\* "unknown" is overwritten line after line, as every field is: it is what
\* follows the last colon in the last of these lines, and no more.
C5_LastUnmatchedWins ==
    (RecordDone /\ Cardinality(UnmatchedLines) >= 2)
        => AfterLastColon(call.lines[Last(UnmatchedLines)], ret.result["unknown"])

\* "???" and then an empty line: "unknown" is empty
C5_Witness ==
    /\ RecordDone
    /\ call.lines = << <<"?", "?", "?">>, <<>> >>
    /\ ret.result["unknown"] = <<>>

\* C6: the record has the 18 keys, and each of the 17 fields is what follows
\* the last colon in the last line that selects the field, the field being
\* the first, in the order of Fields, whose label and colon start the line;
\* it is "" when no line selects it.
C6_LastSelectingLine ==
    RecordDone
        => /\ DOMAIN ret.result = RecordKeys
           /\ \A k \in 1..Len(Fields) :
                 LET sel == {i \in 1..Len(call.lines) : Selects(k, call.lines[i])}
                 IN  IF sel = {} THEN ret.result[Fields[k].type] = <<>>
                     ELSE AfterLastColon(call.lines[Last(sel)],
                                         ret.result[Fields[k].type])

\* "Level: 3\nStatus: Banned": level is "3", status "Banned", the rest ""
C6_Witness ==
    /\ RecordDone
    /\ call.text = <<"L","e","v","e","l",":"," ","3","LF",
                     "S","t","a","t","u","s",":"," ","B","a","n","n","e","d">>
    /\ ret.result["level"] = <<"3">>
    /\ ret.result["status"] = <<"B","a","n","n","e","d">>
    /\ \A key \in RecordKeys \ {"level", "status"} : ret.result[key] = <<>>

----------------------------------------------------------------------------
(* Properties of get_entity_text, under SpecEntity *)

EntityDone ==
    pc = "done" /\ call.fn = "get_entity_text" /\ call.entity # <<>>

\* The units offset .. offset + length - 1 of the encoded text t
UnitsOf(t, entity) ==
    LET units == encode(t)
        first == entity.offset + 1
        last == Min(entity.offset + entity.length, Len(units))
    IN  [j \in 1..(IF last >= first THEN last - first + 1 ELSE 0) |->
            units[first + j - 1]]

\* The units hold a surrogate without its pair
Unpaired(units) ==
    \E i \in 1..Len(units) :
        \/ units[i] = "HI" /\ (i = Len(units) \/ units[i + 1] # "LO")
        \/ units[i] = "LO" /\ (i = 1 \/ units[i - 1] # "HI")

\* C7: when the span [offset * 2, (offset + length) * 2) of the encoded text
\* starts or ends inside a surrogate pair, get_entity_text returns "", and no
\* part of the text.
C7_MidPairGivesEmpty ==
    (EntityDone /\ Unpaired(UnitsOf(ret.text, call.entity[1])))
        => ret.result = <<>>

\* The span ends between the two units of U+1F600, after an "a"
C7_Witness ==
    /\ EntityDone
    /\ ret.text = <<"a", "EMOJI">>
    /\ call.entity[1].offset = 0
    /\ call.entity[1].length = 2
    /\ ret.result = <<>>

\* C8: for a message text s of BMP characters only, and an offset and a
\* length within s, get_entity_text returns the characters offset ..
\* offset + length - 1 of s: the whole of s for offset 0 and length len(s).
C8_RoundTripBMP ==
    (/\ EntityDone
     /\ call.message.text # <<>>
     /\ Count("EMOJI", call.message.text) = 0
     /\ call.entity[1].offset + call.entity[1].length <= Len(call.message.text))
        => ret.result = SubSeq(call.message.text, call.entity[1].offset + 1,
                               call.entity[1].offset + call.entity[1].length)

====
